---- MODULE Spec2Model ----
(***************************************************************************)
(* The register-machine regular expression engine of register-regex:      *)
(* codegen.rs compiles a syntax tree into a vector of instructions, and    *)
(* evaluator.rs runs that vector against a line of characters.             *)
(*                                                                         *)
(* Spec      do_matching: get_code on a syntax tree, then eval on a line.  *)
(* SpecEval  eval applied to an arbitrary (possibly malformed) program.    *)
(***************************************************************************)
EXTENDS Integers, Sequences, FiniteSets, TLC

VARIABLES
    tree,        \* the AST handed to get_code
    phase,       \* where do_matching / eval stands
    generator,   \* struct Generator { pc, insts }
    gstack,      \* call stack of the gen_* methods (top = last element)
    genResult,   \* what get_code returned: "none", "Ok" or a CodeGenError
    code,        \* the Vec<Instruction> get_code returned (<<>>: none)
    line,        \* the input characters given to eval
    is_depth,    \* the strategy flag given to eval
    pc,          \* eval_depth: pc of the running activation
    sp,          \* eval_depth: sp of the running activation
    stack,       \* eval_depth activations suspended in a Split arm
    ret,         \* the value the activation that just ended returns
    result,      \* what the last eval call returned to its caller
    verdicts,    \* per strategy, what eval returned for this code and line
    earlier      \* the line that matched before this longer one, and its verdict

vars == <<tree, phase, generator, gstack, genResult, code, line, is_depth,
          pc, sp, stack, ret, result, verdicts, earlier>>

genVars == <<generator, gstack, genResult, code>>
evalVars == <<line, is_depth, pc, sp, stack, ret, result, verdicts, earlier>>

(***************************************************************************)
(* Bounds of the model.                                                    *)
(***************************************************************************)
\* usize is modelled UsizeBits wide.
UsizeBits == 4
\* Generated syntax trees have at most MaxNodes nodes.
MaxNodes == 4
\* Generated input lines have at most MaxLineLen characters.
MaxLineLen == 3
\* eval_depth activations that may be suspended at once.
MaxStack == 12
\* Arbitrary programs (SpecEval) have at most MaxProgLen instructions.
MaxProgLen == 2

UsizeMax == 2 ^ UsizeBits - 1

Alphabet == {"a", "b"}

(***************************************************************************)
(* enum AST, as gen_expr matches on it.                                    *)
(***************************************************************************)
AST_Char(c) == [t |-> "Char", c |-> c]
AST_Or(e1, e2) == [t |-> "Or", e1 |-> e1, e2 |-> e2]
AST_Seq(es) == [t |-> "Seq", es |-> es]
AST_Star(e) == [t |-> "Star", e |-> e]
AST_Plus(e) == [t |-> "Plus", e |-> e]
AST_Question(e) == [t |-> "Question", e |-> e]

NoTree == [t |-> "None"]

(***************************************************************************)
(* enum Instruction.                                                       *)
(***************************************************************************)
Instruction_Char(c) == [op |-> "Char", c |-> c]
Instruction_Match == [op |-> "Match"]
Instruction_Jump(addr) == [op |-> "Jump", addr |-> addr]
Instruction_Split(addr1, addr2) == [op |-> "Split", addr1 |-> addr1, addr2 |-> addr2]

(***************************************************************************)
(* The syntax trees the model compiles: every tree of at most MaxNodes     *)
(* nodes over Alphabet (a Seq is empty only as the whole tree), the trees  *)
(* of the two documented patterns, and trees around the usize limit.       *)
(***************************************************************************)
RECURSIVE TreesOfSize(_), SeqsOfSize(_)
TreesOfSize(n) ==
    IF n <= 0 THEN {}
    ELSE IF n = 1 THEN {AST_Char(c) : c \in Alphabet}
    ELSE {AST_Star(e) : e \in TreesOfSize(n - 1)}
         \cup {AST_Plus(e) : e \in TreesOfSize(n - 1)}
         \cup {AST_Question(e) : e \in TreesOfSize(n - 1)}
         \cup {AST_Seq(es) : es \in SeqsOfSize(n - 1)}
         \cup UNION {{AST_Or(e1, e2) : e1 \in TreesOfSize(k), e2 \in TreesOfSize(n - 1 - k)}
                     : k \in 1..(n - 2)}

SeqsOfSize(m) ==
    IF m <= 0 THEN {}
    ELSE {<<e>> : e \in TreesOfSize(m)}
         \cup UNION {{<<e>> \o es : e \in TreesOfSize(k), es \in SeqsOfSize(m - k)}
                     : k \in 1..(m - 1)}

SmallTrees == {AST_Seq(<<>>)} \cup UNION {TreesOfSize(n) : n \in 1..MaxNodes}

Chars(s) == [i \in 1..Len(s) |-> AST_Char(s[i])]

\* "abc|(de|cd)+"
ExprDoMatching ==
    AST_Or(AST_Seq(Chars(<<"a", "b", "c">>)),
           AST_Seq(<<AST_Plus(AST_Or(AST_Seq(Chars(<<"d", "e">>)),
                                     AST_Seq(Chars(<<"c", "d">>))))>>))
LineDoMatching == <<"d", "e", "c", "d", "d", "e", "d", "e">>

\* "a(bc)+|c(def)*"
ExprCrate ==
    AST_Or(AST_Seq(<<AST_Char("a"), AST_Plus(AST_Seq(Chars(<<"b", "c">>)))>>),
           AST_Seq(<<AST_Char("c"), AST_Star(AST_Seq(Chars(<<"d", "e", "f">>)))>>))
LineCrate == <<"c", "d", "e", "f", "d", "e", "f", "d", "e", "f">>

\* Trees whose code needs about UsizeMax addresses: n literals, bare or
\* under one operator.
Literals(n) == AST_Seq([i \in 1..n |-> AST_Char("a")])
LongTrees ==
    UNION {{Literals(n), AST_Star(Literals(n)), AST_Plus(Literals(n)),
            AST_Question(Literals(n)), AST_Or(Literals(n), AST_Char("b")),
            AST_Or(AST_Char("b"), Literals(n))}
           : n \in (UsizeMax - 4)..(UsizeMax + 1)}

Trees == SmallTrees \cup {ExprDoMatching, ExprCrate} \cup LongTrees

RECURSIVE LinesOfLen(_)
LinesOfLen(n) ==
    IF n = 0 THEN {<<>>}
    ELSE {Append(l, c) : l \in LinesOfLen(n - 1), c \in Alphabet}

Lines == UNION {LinesOfLen(n) : n \in 0..MaxLineLen} \cup {LineDoMatching, LineCrate}

IsPrefix(p, l) == Len(p) <= Len(l) /\ \A i \in 1..Len(p) : l[i] = p[i]

NoVerdicts == [depth |-> "none", width |-> "none"]
NoEarlier == [line |-> <<>>, result |-> "none"]

(***************************************************************************)
(* helper::safe_add: a checked addition on usize.  On overflow the         *)
(* destination is left alone and the caller's error is returned.          *)
(***************************************************************************)
safe_add(dst, src) ==
    IF dst + src <= UsizeMax
    THEN [ok |-> TRUE, val |-> dst + src]
    ELSE [ok |-> FALSE, val |-> dst]

(***************************************************************************)
(* Generator.  A value g = [pc, insts, err] is the generator together     *)
(* with the error, if any, that a `?` is carrying out of the method: once  *)
(* err is set the rest of the method is skipped.                           *)
(***************************************************************************)
Running(g) == g.err = "none"

inc_pc_wraps(g) ==
    IF ~Running(g) THEN g
    ELSE [g EXCEPT !.pc = (g.pc + 1) % (UsizeMax + 1)]

inc_pc(g) ==
    IF ~Running(g) THEN g
    ELSE LET r == safe_add(g.pc, 1)
         IN  IF r.ok THEN [g EXCEPT !.pc = r.val]
             ELSE [g EXCEPT !.err = "PCOverFlow"]

push(g, inst) ==
    IF ~Running(g) THEN g
    ELSE [g EXCEPT !.insts = Append(g.insts, inst)]

\* if let Some(Instruction::Split(_, l2)) = self.insts.get_mut(addr)
\*     { *l2 = self.pc } else { return Err(fail) }
patch_split_off_by_one(g, addr, fail) ==
    IF ~Running(g) THEN g
    ELSE IF addr + 1 < Len(g.insts) /\ g.insts[addr + 2].op = "Split"
    THEN [g EXCEPT !.insts[addr + 2].addr2 = g.pc]
    ELSE [g EXCEPT !.err = fail]

patch_split_skipped(g, addr, fail) == g

patch_split(g, addr, fail) ==
    IF ~Running(g) THEN g
    ELSE IF addr < Len(g.insts) /\ g.insts[addr + 1].op = "Split"
    THEN [g EXCEPT !.insts[addr + 1].addr2 = g.pc]
    ELSE [g EXCEPT !.err = fail]

\* if let Some(Instruction::Jump(l3)) = self.insts.get_mut(addr)
\*     { *l3 = self.pc } else { return Err(fail) }
patch_jump_past(g, addr, fail) ==
    IF ~Running(g) THEN g
    ELSE IF addr < Len(g.insts) /\ g.insts[addr + 1].op = "Jump"
    THEN [g EXCEPT !.insts[addr + 1].addr = g.pc + 1]
    ELSE [g EXCEPT !.err = fail]

patch_jump(g, addr, fail) ==
    IF ~Running(g) THEN g
    ELSE IF addr < Len(g.insts) /\ g.insts[addr + 1].op = "Jump"
    THEN [g EXCEPT !.insts[addr + 1].addr = g.pc]
    ELSE [g EXCEPT !.err = fail]

Gen == [pc |-> generator.pc, insts |-> generator.insts, err |-> "none"]

\* A frame of the generator's call stack: the method, the tree it was given,
\* the point it resumes at, and its saved addresses (split_addr / l1, jmp_addr).
Frame(fn, ast, at, a1, a2) == [fn |-> fn, ast |-> ast, at |-> at, a1 |-> a1, a2 |-> a2]
CallExpr(e) == Frame("gen_expr", e, 0, 0, 0)

Top == gstack[Len(gstack)]
Below == SubSeq(gstack, 1, Len(gstack) - 1)
At(fn, at) == phase = "codegen" /\ gstack # <<>> /\ Top.fn = fn /\ Top.at = at

\* The method goes on: g is stored and the stack becomes stk, unless a `?`
\* carries an error, which every caller up to get_code hands on unchanged.
Continue(g, stk) ==
    /\ generator' = [pc |-> g.pc, insts |-> g.insts]
    /\ IF Running(g)
       THEN /\ gstack' = stk
            /\ UNCHANGED <<phase, genResult, code>>
       ELSE /\ gstack' = <<>>
            /\ genResult' = g.err
            /\ phase' = "failed"
            /\ UNCHANGED code
    /\ UNCHANGED <<tree, evalVars>>

(***************************************************************************)
(* get_code: a fresh generator runs gen_code on the tree.                  *)
(***************************************************************************)
get_code ==
    /\ phase = "start"
    /\ tree # NoTree
    /\ phase' = "codegen"
    /\ generator' = [pc |-> 0, insts |-> <<>>]
    /\ gstack' = <<Frame("gen_code", tree, 0, 0, 0)>>
    /\ UNCHANGED <<tree, genResult, code, evalVars>>

\* gen_code, up to its call of gen_expr.
gen_code_call ==
    /\ At("gen_code", 0)
    /\ Continue(Gen, Below \o <<[Top EXCEPT !.at = 1], CallExpr(Top.ast)>>)

emit_match_forgotten(g) == inc_pc(g)

emit_match(g) == push(inc_pc(g), Instruction_Match)

\* gen_code after gen_expr: the trailing Match; get_code returns the insts.
gen_code_match ==
    /\ At("gen_code", 1)
    /\ LET g == emit_match(Gen)
       IN  /\ generator' = [pc |-> g.pc, insts |-> g.insts]
           /\ gstack' = <<>>
           /\ IF Running(g)
              THEN /\ genResult' = "Ok"
                   /\ code' = g.insts
                   /\ phase' = "compiled"
              ELSE /\ genResult' = g.err
                   /\ phase' = "failed"
                   /\ UNCHANGED code
    /\ UNCHANGED <<tree, evalVars>>

GenFn(ast) ==
    CASE ast.t = "Char" -> "gen_char"
      [] ast.t = "Or" -> "gen_or"
      [] ast.t = "Seq" -> "gen_seq"
      [] ast.t = "Star" -> "gen_star"
      [] ast.t = "Plus" -> "gen_plus"
      [] ast.t = "Question" -> "gen_question"

\* gen_expr: the match on the node's kind.
gen_expr ==
    /\ At("gen_expr", 0)
    /\ Continue(Gen, Below \o <<[Top EXCEPT !.fn = GenFn(Top.ast)]>>)

\* self.insts.push(Instruction::Char(c)); self.inc_pc()?;
emit_char_no_inc(g, c) == push(g, Instruction_Char(c))

emit_char(g, c) == inc_pc(push(g, Instruction_Char(c)))

gen_char ==
    /\ At("gen_char", 0)
    /\ Continue(emit_char(Gen, Top.ast.c), Below)

\* gen_or up to gen_expr(e1): the split with its second operand left 0.
gen_or_split ==
    /\ At("gen_or", 0)
    /\ LET split_addr == generator.pc
           g1 == inc_pc(Gen)
           g2 == push(g1, Instruction_Split(g1.pc, 0))
       IN  Continue(g2, Below \o <<[Top EXCEPT !.at = 1, !.a1 = split_addr],
                                   CallExpr(Top.ast.e1)>>)

\* gen_or between e1 and e2: the jump, then the split's L2 is patched.
gen_or_jump ==
    /\ At("gen_or", 1)
    /\ LET jmp_addr == generator.pc
           g1 == push(Gen, Instruction_Jump(0))
           g2 == inc_pc(g1)
           g3 == patch_split(g2, Top.a1, "FailOr")
       IN  Continue(g3, Below \o <<[Top EXCEPT !.at = 2, !.a2 = jmp_addr],
                                   CallExpr(Top.ast.e2)>>)

\* gen_or after e2: the jump's L3 is patched.
gen_or_end ==
    /\ At("gen_or", 2)
    /\ Continue(patch_jump(Gen, Top.a2, "FailOr"), Below)

gen_plus_body ==
    /\ At("gen_plus", 0)
    /\ LET l1 == generator.pc
       IN  Continue(Gen, Below \o <<[Top EXCEPT !.at = 1, !.a1 = l1],
                                    CallExpr(Top.ast.e)>>)

\* self.inc_pc()?; self.insts.push(Instruction::Split(l1, self.pc));
plus_split_before_inc(g, l1) == inc_pc(push(g, Instruction_Split(l1, g.pc)))

plus_split(g, l1) ==
    LET g1 == inc_pc(g)
    IN  push(g1, Instruction_Split(l1, g1.pc))

gen_plus_split ==
    /\ At("gen_plus", 1)
    /\ Continue(plus_split(Gen, Top.a1), Below)

gen_star_split ==
    /\ At("gen_star", 0)
    /\ LET l1 == generator.pc
           g1 == inc_pc(Gen)
           g2 == push(g1, Instruction_Split(g1.pc, 0))
       IN  Continue(g2, Below \o <<[Top EXCEPT !.at = 1, !.a1 = l1],
                                   CallExpr(Top.ast.e)>>)

\* self.inc_pc()?; self.insts.push(Instruction::Jump(l1));
star_jump_to_body(g, l1) == push(inc_pc(g), Instruction_Jump(l1 + 1))

star_jump(g, l1) == push(inc_pc(g), Instruction_Jump(l1))

gen_star_jump ==
    /\ At("gen_star", 1)
    /\ Continue(patch_split(star_jump(Gen, Top.a1), Top.a1, "FailStar"), Below)

gen_question_split ==
    /\ At("gen_question", 0)
    /\ LET split_addr == generator.pc
           g1 == inc_pc(Gen)
           g2 == push(g1, Instruction_Split(g1.pc, 0))
       IN  Continue(g2, Below \o <<[Top EXCEPT !.at = 1, !.a1 = split_addr],
                                   CallExpr(Top.ast.e)>>)

gen_question_patch ==
    /\ At("gen_question", 1)
    /\ Continue(patch_split(Gen, Top.a1, "FailQuestion"), Below)

\* gen_seq: Top.at counts the children already generated.
gen_seq ==
    /\ phase = "codegen" /\ gstack # <<>> /\ Top.fn = "gen_seq"
    /\ IF Top.at < Len(Top.ast.es)
       THEN Continue(Gen, Below \o <<[Top EXCEPT !.at = Top.at + 1],
                                     CallExpr(Top.ast.es[Top.at + 1])>>)
       ELSE Continue(Gen, Below)

GenNext ==
    \/ get_code
    \/ gen_code_call
    \/ gen_code_match
    \/ gen_expr
    \/ gen_char
    \/ gen_or_split
    \/ gen_or_jump
    \/ gen_or_end
    \/ gen_plus_body
    \/ gen_plus_split
    \/ gen_star_split
    \/ gen_star_jump
    \/ gen_question_split
    \/ gen_question_patch
    \/ gen_seq

(***************************************************************************)
(* Evaluator.  Result<bool, EvalError> values are written as strings.      *)
(***************************************************************************)
EvalErrors == {"Err(InvalidPC)", "Err(PCOverFlow)", "Err(SPOverFlow)"}
IsErr(r) == r \in EvalErrors

\* An activation of eval_depth suspended in its Split arm: the pc of the
\* Split, the sp it branched at, and which of the two calls is under way.
Activation(p, s, branch) == [pc |-> p, sp |-> s, branch |-> branch]

\* eval: the strategy is chosen by is_depth.  A compiled program is evaluated
\* once per strategy on a line and, when backtracking matched the line, once
\* more with backtracking on a line that extends it.
eval(l, d) ==
    /\ phase \in {"compiled", "returned"}
    /\ IF phase = "returned" /\ l # line
       THEN /\ d
            /\ result = "Ok(true)"
            /\ earlier = NoEarlier
            /\ IsPrefix(line, l)
            /\ earlier' = [line |-> line, result |-> result]
            /\ verdicts' = NoVerdicts
       ELSE /\ (IF d THEN verdicts.depth ELSE verdicts.width) = "none"
            /\ UNCHANGED <<verdicts, earlier>>
    /\ line' = l
    /\ is_depth' = d
    /\ phase' = IF d THEN "eval_depth" ELSE "eval_width"
    /\ pc' = 0
    /\ sp' = 0
    /\ stack' = <<>>
    /\ ret' = "none"
    /\ result' = "none"
    /\ UNCHANGED <<tree, genVars>>

\* eval_width is unimplemented!(): the call panics.
eval_width ==
    /\ phase = "eval_width"
    /\ phase' = "panicked"
    /\ UNCHANGED <<tree, genVars, evalVars>>

\* The Char arm: what becomes of pc, sp and the return value.
char_arm_unchecked(c, p, s) ==
    IF s < Len(line) /\ line[s + 1] # c
    THEN [pc |-> p, sp |-> s, ret |-> "Ok(false)"]
    ELSE [pc |-> p + 1, sp |-> s + 1, ret |-> "none"]

char_arm(c, p, s) ==
    IF s < Len(line)
    THEN IF c = line[s + 1]
         THEN LET rp == safe_add(p, 1)
                  rs == safe_add(s, 1)
              IN  IF ~rp.ok THEN [pc |-> p, sp |-> s, ret |-> "Err(PCOverFlow)"]
                  ELSE IF ~rs.ok THEN [pc |-> rp.val, sp |-> s, ret |-> "Err(SPOverFlow)"]
                  ELSE [pc |-> rp.val, sp |-> rs.val, ret |-> "none"]
         ELSE [pc |-> p, sp |-> s, ret |-> "Ok(false)"]
    ELSE [pc |-> p, sp |-> s, ret |-> "Ok(false)"]

\* The Match arm: Ok(true), whatever is left of the line.
match_arm_anchored(s) == IF s = Len(line) THEN "Ok(true)" ELSE "Ok(false)"

match_arm(s) == "Ok(true)"

\* One turn of eval_depth's loop: fetch inst[pc] and run its arm.  The Split
\* arm suspends this activation and starts the one for addr1.
eval_depth ==
    /\ phase = "eval_depth"
    /\ ret = "none"
    /\ IF pc >= Len(code)
       THEN /\ ret' = "Err(InvalidPC)"
            /\ UNCHANGED <<pc, sp, stack>>
       ELSE LET next == code[pc + 1]
            IN  CASE next.op = "Char" ->
                       LET n == char_arm(next.c, pc, sp)
                       IN  /\ pc' = n.pc
                           /\ sp' = n.sp
                           /\ ret' = n.ret
                           /\ UNCHANGED stack
                  [] next.op = "Match" ->
                       /\ ret' = match_arm(sp)
                       /\ UNCHANGED <<pc, sp, stack>>
                  [] next.op = "Jump" ->
                       /\ pc' = next.addr
                       /\ UNCHANGED <<sp, stack, ret>>
                  [] next.op = "Split" ->
                       /\ Len(stack) < MaxStack
                       /\ stack' = Append(stack, Activation(pc, sp, 1))
                       /\ pc' = next.addr1
                       /\ UNCHANGED <<sp, ret>>
    /\ UNCHANGED <<tree, phase, genVars, line, is_depth, result, verdicts, earlier>>

\* The Split arm, when one of its two calls has returned r:
\*     eval_depth(.., *addr1, sp)? || eval_depth(.., *addr2, sp)?
\* "second": call addr2; "return": hand r to the caller.
split_arm_swallows(branch, r) ==
    IF branch = 1 /\ r # "Ok(true)" THEN "second" ELSE "return"

split_arm_first_only(branch, r) == "return"

split_arm_always_second(branch, r) ==
    IF IsErr(r) THEN "return"
    ELSE IF branch = 1 THEN "second"
    ELSE "return"

split_arm(branch, r) ==
    IF IsErr(r) THEN "return"
    ELSE IF branch = 1 /\ r = "Ok(false)" THEN "second"
    ELSE "return"

\* An activation returns: to the Split arm that called it, or, from the
\* outermost one, to eval's caller.
eval_depth_return ==
    /\ phase = "eval_depth"
    /\ ret # "none"
    /\ IF stack = <<>>
       THEN /\ phase' = "returned"
            /\ result' = ret
            /\ verdicts' = [verdicts EXCEPT !.depth = ret]
            /\ UNCHANGED <<pc, sp, stack, ret>>
       ELSE LET caller == stack[Len(stack)]
                callers == SubSeq(stack, 1, Len(stack) - 1)
            IN  /\ IF split_arm(caller.branch, ret) = "second"
                   THEN /\ stack' = Append(callers, [caller EXCEPT !.branch = 2])
                        /\ pc' = code[caller.pc + 1].addr2
                        /\ sp' = caller.sp
                        /\ ret' = "none"
                   ELSE /\ stack' = callers
                        /\ pc' = caller.pc
                        /\ sp' = caller.sp
                        /\ UNCHANGED ret
                /\ UNCHANGED <<phase, result, verdicts>>
    /\ UNCHANGED <<tree, genVars, line, is_depth, earlier>>

EvalNext ==
    \/ \E l \in Lines, d \in BOOLEAN : eval(l, d)
    \/ eval_width
    \/ eval_depth
    \/ eval_depth_return

(***************************************************************************)
(* do_matching: get_code, then eval.                                       *)
(***************************************************************************)
Init ==
    /\ tree \in Trees
    /\ phase = "start"
    /\ generator = [pc |-> 0, insts |-> <<>>]
    /\ gstack = <<>>
    /\ genResult = "none"
    /\ code = <<>>
    /\ line = <<>>
    /\ is_depth = TRUE
    /\ pc = 0
    /\ sp = 0
    /\ stack = <<>>
    /\ ret = "none"
    /\ result = "none"
    /\ verdicts = NoVerdicts
    /\ earlier = NoEarlier

Next == GenNext \/ EvalNext

Spec == Init /\ [][Next]_vars

\* do_matching on a processor that keeps running: a turn of eval_depth's loop
\* or a return that can be taken is taken.

(***************************************************************************)
(* eval on its own, given any program of at most MaxProgLen instructions   *)
(* whose addresses may lie one past the end.                               *)
(***************************************************************************)
Addrs == 0..MaxProgLen

Instructions ==
    {Instruction_Char(c) : c \in Alphabet}
    \cup {Instruction_Match}
    \cup {Instruction_Jump(a) : a \in Addrs}
    \cup {Instruction_Split(a1, a2) : a1 \in Addrs, a2 \in Addrs}

Programs == UNION {[1..n -> Instructions] : n \in 0..MaxProgLen}

InitEval ==
    /\ tree = NoTree
    /\ phase = "compiled"
    /\ generator = [pc |-> 0, insts |-> <<>>]
    /\ gstack = <<>>
    /\ genResult = "none"
    /\ code \in Programs
    /\ line = <<>>
    /\ is_depth = TRUE
    /\ pc = 0
    /\ sp = 0
    /\ stack = <<>>
    /\ ret = "none"
    /\ result = "none"
    /\ verdicts = NoVerdicts
    /\ earlier = NoEarlier

SpecEval == InitEval /\ [][EvalNext]_vars

(***************************************************************************)
(* Reference notions the properties are stated with.                       *)
(***************************************************************************)
RECURSIVE Nullable(_)
\* The tree's language contains the empty string.
Nullable(ast) ==
    CASE ast.t = "Char" -> FALSE
      [] ast.t = "Or" -> Nullable(ast.e1) \/ Nullable(ast.e2)
      [] ast.t = "Seq" -> \A i \in 1..Len(ast.es) : Nullable(ast.es[i])
      [] ast.t = "Star" -> TRUE
      [] ast.t = "Plus" -> Nullable(ast.e)
      [] ast.t = "Question" -> TRUE

RECURSIVE HasNullableLoop(_)
\* Some Star or Plus of the tree has a body that can match the empty string.
HasNullableLoop(ast) ==
    CASE ast.t = "Char" -> FALSE
      [] ast.t = "Or" -> HasNullableLoop(ast.e1) \/ HasNullableLoop(ast.e2)
      [] ast.t = "Seq" -> \E i \in 1..Len(ast.es) : HasNullableLoop(ast.es[i])
      [] ast.t \in {"Star", "Plus"} -> Nullable(ast.e) \/ HasNullableLoop(ast.e)
      [] ast.t = "Question" -> HasNullableLoop(ast.e)

RECURSIVE InstCount(_), InstCountSeq(_)
\* The number of instructions the tree's constructs call for.
InstCount(ast) ==
    CASE ast.t = "Char" -> 1
      [] ast.t = "Or" -> 2 + InstCount(ast.e1) + InstCount(ast.e2)
      [] ast.t = "Seq" -> InstCountSeq(ast.es)
      [] ast.t = "Star" -> 2 + InstCount(ast.e)
      [] ast.t = "Plus" -> 1 + InstCount(ast.e)
      [] ast.t = "Question" -> 1 + InstCount(ast.e)

InstCountSeq(es) ==
    IF es = <<>> THEN 0 ELSE InstCount(Head(es)) + InstCountSeq(Tail(es))

\* With the trailing Match: the addresses 0 .. ProgramLen - 1 are needed, and
\* the pc ends at ProgramLen.
ProgramLen(ast) == InstCount(ast) + 1

RECURSIVE Ends(_, _, _), EndsSeq(_, _, _), Iterate(_, _, _)
\* The positions j such that l[i+1 .. j] is in the language of ast for some
\* start i in S (positions count the characters before them).
Ends(ast, l, S) ==
    CASE ast.t = "Char" -> {i + 1 : i \in {j \in S : j < Len(l) /\ l[j + 1] = ast.c}}
      [] ast.t = "Or" -> Ends(ast.e1, l, S) \cup Ends(ast.e2, l, S)
      [] ast.t = "Seq" -> EndsSeq(ast.es, l, S)
      [] ast.t = "Star" -> Iterate(ast.e, l, S)
      [] ast.t = "Plus" -> Iterate(ast.e, l, Ends(ast.e, l, S))
      [] ast.t = "Question" -> S \cup Ends(ast.e, l, S)

EndsSeq(es, l, S) ==
    IF es = <<>> THEN S ELSE EndsSeq(Tail(es), l, Ends(Head(es), l, S))

Iterate(e, l, S) ==
    LET T == S \cup Ends(e, l, S)
    IN  IF T = S THEN S ELSE Iterate(e, l, T)

\* Some prefix of l belongs to the language of ast.
PrefixInLanguage(ast, l) == Ends(ast, l, {0}) # {}

Verdict(b) == IF b THEN "Ok(true)" ELSE "Ok(false)"

\* A Seq of Char nodes, and the string it spells.
IsLiteral(ast) ==
    /\ ast.t = "Seq"
    /\ \A i \in 1..Len(ast.es) : ast.es[i].t = "Char"
Spelled(ast) == [i \in 1..Len(ast.es) |-> ast.es[i].c]

RECURSIVE ReachFrom(_, _)
\* The addresses reachable from those of R: a Char falls through, a Jump
\* goes to its target, a Split to both of its targets.
ReachFrom(prog, R) ==
    LET succ(a) ==
            IF a >= Len(prog) THEN {}
            ELSE LET i == prog[a + 1]
                 IN  CASE i.op = "Char" -> {a + 1}
                       [] i.op = "Match" -> {}
                       [] i.op = "Jump" -> {i.addr}
                       [] i.op = "Split" -> {i.addr1, i.addr2}
        T == R \cup UNION {succ(a) : a \in R}
    IN  IF T = R THEN R ELSE ReachFrom(prog, T)

Compiled == genResult = "Ok"

(***************************************************************************)
(* C1.  For every compiled program and every input, eval with              *)
(* is_depth = false returns the same boolean verdict as eval with          *)
(* is_depth = true.                                                        *)
(***************************************************************************)
C1_WidthAgreesWithDepth ==
    (/\ Compiled
     /\ ~is_depth
     /\ phase \in {"returned", "panicked"}
     /\ verdicts.depth \in {"Ok(true)", "Ok(false)"})
    => verdicts.width = verdicts.depth

(***************************************************************************)
(* C2.  Backtracking evaluation of the program of a Star whose body can    *)
(* match the empty input ends with a boolean on every input: it never      *)
(* recurses without bound.  eval_depth is deterministic in (pc, sp), so an *)
(* activation suspended in the same Split, at the same sp and in the same  *)
(* call as one of its callers repeats that caller's recursion for ever;    *)
(* termination therefore requires the suspended activations to be          *)
(* pairwise different.                                                     *)
(***************************************************************************)
NoActivationRepeats ==
    \A i, j \in 1..Len(stack) : stack[i] = stack[j] => i = j

C2_NullableStarTerminates ==
    (/\ Compiled
     /\ tree.t = "Star"
     /\ Nullable(tree.e)
     /\ phase = "eval_depth")
    => NoActivationRepeats

(***************************************************************************)
(* C3.  For a pattern of literal characters only, do_matching returns true *)
(* if and only if the input equals the pattern, and false for every input  *)
(* that is shorter, longer or different.                                   *)
(***************************************************************************)
C3_LiteralExactMatch ==
    (IsLiteral(tree) /\ phase = "returned")
    => result = Verdict(line = Spelled(tree))

\* C3, with Match accepting whatever input is left: with backtracking,
\* do_matching returns true if and only if the input starts with the pattern;
\* an input that is shorter than the pattern or differs from it within the
\* pattern's length gives false, and an input that extends the pattern gives
\* true.
C3_LiteralPrefixMatch ==
    (IsLiteral(tree) /\ phase = "returned")
    => result = Verdict(IsPrefix(Spelled(tree), line))

C3_Witness ==
    /\ IsLiteral(tree)
    /\ phase = "returned"
    /\ Len(Spelled(tree)) = 2
    /\ Len(line) = 3
    /\ result = "Ok(true)"

(***************************************************************************)
(* C4.  For a tree in which no Star or Plus body can match the empty       *)
(* string, backtracking evaluation of its code returns true exactly when   *)
(* some prefix of the input is in the tree's language; abc|(de|cd)+ on     *)
(* decddede and a(bc)+|c(def)* on cdefdefdef both give true.               *)
(***************************************************************************)
C4_BacktrackingDecidesPrefixLanguage ==
    /\ (~HasNullableLoop(tree) /\ phase = "returned")
       => result = Verdict(PrefixInLanguage(tree, line))
    /\ (tree = ExprDoMatching /\ line = LineDoMatching /\ phase = "returned")
       => result = "Ok(true)"
    /\ (tree = ExprCrate /\ line = LineCrate /\ phase = "returned")
       => result = "Ok(true)"

C4_Witness ==
    /\ phase = "returned"
    /\ tree = ExprDoMatching
    /\ line = LineDoMatching
    /\ result = "Ok(true)"

(***************************************************************************)
(* C5.  In every program get_code returns, the operand of every Jump and   *)
(* both operands of every Split are addresses below the program's length.  *)
(***************************************************************************)
AddressesInRange(prog) ==
    \A i \in 1..Len(prog) :
        /\ prog[i].op = "Jump" => prog[i].addr \in 0..(Len(prog) - 1)
        /\ prog[i].op = "Split" =>
              /\ prog[i].addr1 \in 0..(Len(prog) - 1)
              /\ prog[i].addr2 \in 0..(Len(prog) - 1)

C5_AddressesInRange == Compiled => AddressesInRange(code)

C5_Witness ==
    /\ Compiled
    /\ \E i \in 1..Len(code) : code[i].op = "Jump" /\ code[i].addr = Len(code) - 1
    /\ \E i \in 1..Len(code) : code[i].op = "Split" /\ code[i].addr2 = Len(code) - 1

(***************************************************************************)
(* C6.  Every program get_code returns holds exactly one Match, as its     *)
(* last instruction, and that Match is reachable from address 0.           *)
(***************************************************************************)
C6_OneReachableMatch ==
    Compiled =>
        /\ Len(code) >= 1
        /\ code[Len(code)].op = "Match"
        /\ Cardinality({i \in 1..Len(code) : code[i].op = "Match"}) = 1
        /\ (Len(code) - 1) \in ReachFrom(code, {0})

C6_Witness ==
    /\ Compiled
    /\ tree.t = "Star"
    /\ Len(code) >= 4
    /\ code[1] = Instruction_Split(1, Len(code) - 1)

(***************************************************************************)
(* C7.  Backtracking evaluation of a program get_code returned never ends  *)
(* in an EvalError: the pc is always a valid address and sp never exceeds  *)
(* the length of the line.                                                 *)
(***************************************************************************)
C7_NoEvalError ==
    /\ (Compiled /\ phase = "eval_depth") =>
          /\ pc < Len(code)
          /\ sp <= Len(line)
          /\ ~IsErr(ret)
    /\ (Compiled /\ phase = "returned") => result \in {"Ok(true)", "Ok(false)"}

C7_Witness ==
    /\ Compiled
    /\ phase = "eval_depth"
    /\ Len(line) >= 1
    /\ sp = Len(line)
    /\ pc = Len(code) - 1

(***************************************************************************)
(* C8.  Whatever the program, an EvalError met on a path that backtracking *)
(* explores is what eval returns: an out-of-range pc raises InvalidPC, and *)
(* every Split arm the error passes through, from its first or its second  *)
(* call, hands it on unchanged, never as Ok(false).                        *)
(***************************************************************************)
C8_EvalErrorPropagates ==
    [][/\ (phase = "eval_depth" /\ ret = "none" /\ pc >= Len(code))
          => ret' = "Err(InvalidPC)"
       /\ (phase = "eval_depth" /\ IsErr(ret))
          => /\ ret' = ret
             /\ phase' \in {"eval_depth", "returned"}
             /\ phase' = "returned" => result' = ret
             /\ phase' = "eval_depth" => Len(stack') = Len(stack) - 1]_vars

C8_Witness ==
    /\ phase = "eval_depth"
    /\ IsErr(ret)
    /\ Len(stack) = 2
    /\ stack[1].branch = 1
    /\ stack[2].branch = 2

(***************************************************************************)
(* C9.  A tree that needs more addresses than usize can represent makes    *)
(* get_code return PCOverFlow and no program; the pc never wraps, and a    *)
(* returned program has the full length its tree calls for.                *)
(***************************************************************************)
C9_OverflowGuard ==
    /\ [](/\ Compiled => /\ ProgramLen(tree) <= UsizeMax
                         /\ Len(code) = ProgramLen(tree)
          /\ (phase = "failed" /\ ProgramLen(tree) > UsizeMax)
             => (genResult = "PCOverFlow" /\ code = <<>>)
          /\ generator.pc <= UsizeMax)
    /\ [][generator'.pc >= generator.pc]_vars

C9_Witness ==
    /\ phase = "failed"
    /\ genResult = "PCOverFlow"
    /\ ProgramLen(tree) > UsizeMax
    /\ generator.pc = UsizeMax
    /\ code = <<>>

(***************************************************************************)
(* C10.  get_code never returns FailOr, FailStar or FailQuestion: at every *)
(* patch, the remembered address holds the Split (or Jump) emitted for     *)
(* that construct.  PCOverFlow is the only error get_code returns.         *)
(***************************************************************************)
\* A suspended gen_or / gen_star / gen_question finds its own instructions
\* at the addresses it saved.
PatchTargetsInPlace ==
    \A k \in 1..Len(gstack) :
        LET f == gstack[k]
        IN  /\ (f.fn \in {"gen_or", "gen_star", "gen_question"} /\ f.at >= 1)
               => /\ f.a1 < Len(generator.insts)
                  /\ generator.insts[f.a1 + 1].op = "Split"
                  /\ generator.insts[f.a1 + 1].addr1 = f.a1 + 1
            /\ (f.fn = "gen_or" /\ f.at = 2)
               => /\ f.a2 < Len(generator.insts)
                  /\ generator.insts[f.a2 + 1] = Instruction_Jump(0)

C10_NoPatchFailure ==
    /\ genResult \in {"none", "Ok", "PCOverFlow"}
    /\ phase = "codegen" => PatchTargetsInPlace

C10_Witness ==
    /\ Compiled
    /\ tree.t = "Or"
    /\ tree.e2.t = "Question"
    /\ code[1].op = "Split"
    /\ code[1].addr2 >= 3
    /\ code[code[1].addr2].op = "Jump"
    /\ code[code[1].addr2].addr = Len(code) - 1

(***************************************************************************)
(* C11.  When backtracking executes Split(a1, a2) at position sp, the      *)
(* path from a1 is explored first; the path from a2 is started only once   *)
(* the whole a1 path has returned false, and it starts at the sp of the    *)
(* Split, whatever the a1 path consumed; when the a1 path returns true,    *)
(* a2 is never explored.                                                   *)
(***************************************************************************)
AtSplit ==
    /\ phase = "eval_depth"
    /\ ret = "none"
    /\ pc < Len(code)
    /\ code[pc + 1].op = "Split"

\* The activation for a Split's second operand starts in this step.
SecondStarts ==
    /\ phase = "eval_depth"
    /\ stack' # <<>>
    /\ stack' # stack
    /\ Len(stack') >= Len(stack)
    /\ stack'[Len(stack')].branch = 2

C11_SplitOrder ==
    [][/\ AtSplit =>
             /\ stack' = Append(stack, Activation(pc, sp, 1))
             /\ pc' = code[pc + 1].addr1
             /\ sp' = sp
             /\ ret' = "none"
       /\ SecondStarts =>
             /\ stack # <<>>
             /\ stack[Len(stack)].branch = 1
             /\ ret = "Ok(false)"
             /\ stack' = [stack EXCEPT ![Len(stack)].branch = 2]
             /\ pc' = code[stack[Len(stack)].pc + 1].addr2
             /\ sp' = stack[Len(stack)].sp
             /\ ret' = "none"
       /\ (phase = "eval_depth" /\ ret = "Ok(true)" /\ stack # <<>>) =>
             /\ stack' = SubSeq(stack, 1, Len(stack) - 1)
             /\ ret' = "Ok(true)"]_vars

\* The a1 path has consumed input and failed; a2 is about to start.
C11_Witness ==
    /\ Compiled
    /\ phase = "eval_depth"
    /\ ret = "Ok(false)"
    /\ stack # <<>>
    /\ stack[Len(stack)].branch = 1
    /\ sp > stack[Len(stack)].sp
    /\ code[stack[Len(stack)].pc + 1].addr2 # code[stack[Len(stack)].pc + 1].addr1

RECURSIVE HasLoop(_)
\* The tree holds a Star or a Plus: its code jumps backwards.
HasLoop(ast) ==
    CASE ast.t = "Char" -> FALSE
      [] ast.t = "Or" -> HasLoop(ast.e1) \/ HasLoop(ast.e2)
      [] ast.t = "Seq" -> \E i \in 1..Len(ast.es) : HasLoop(ast.es[i])
      [] ast.t \in {"Star", "Plus"} -> TRUE
      [] ast.t = "Question" -> HasLoop(ast.e)

\* A run of eval_depth is not abandoned half-way: do_matching calls eval and
\* waits for its value.  The trees are those with a loop, the only ones whose
\* evaluation can visit an address twice, and whose loops all consume input.
InitFair == Init /\ HasLoop(tree) /\ ~HasNullableLoop(tree)
SpecFair == InitFair /\ [][Next]_vars /\ WF_vars(eval_depth) /\ WF_vars(eval_depth_return)

RECURSIVE JumpReach(_, _)
\* The addresses reached from those of R through Jump and Split operands
\* alone, in one step or more.
JumpReach(prog, R) ==
    LET succ(a) ==
            IF a >= Len(prog) THEN {}
            ELSE LET i == prog[a + 1]
                 IN  CASE i.op = "Jump" -> {i.addr}
                       [] i.op = "Split" -> {i.addr1, i.addr2}
                       [] OTHER -> {}
        T == UNION {succ(a) : a \in R}
        U == T \cup UNION {succ(a) : a \in T}
    IN  IF U = T THEN T ELSE T \cup JumpReach(prog, U)

EveryCycleConsumes(prog) ==
    \A a \in 0..(Len(prog) - 1) : a \notin JumpReach(prog, {a})

C13_BacktrackingTerminates ==
    /\ []((Compiled /\ ~HasNullableLoop(tree)) =>
            /\ EveryCycleConsumes(code)
            /\ phase = "eval_depth" =>
                  /\ NoActivationRepeats
                  /\ \A i \in 1..Len(stack) :
                        ~(stack[i].pc = pc /\ stack[i].sp = sp /\ ret = "none")
                  /\ Len(stack) <= Len(code) * (Len(line) + 1)
            /\ phase = "returned" => result \in {"Ok(true)", "Ok(false)"})
    /\ (Compiled /\ ~HasNullableLoop(tree) /\ phase = "eval_depth")
          ~> (phase = "returned")

\* A loop has gone round more than once and the evaluation has ended.
C13_Witness ==
    /\ Compiled
    /\ tree = AST_Star(AST_Or(AST_Char("a"), AST_Char("b")))
    /\ Len(line) = 3
    /\ phase = "returned"
    /\ result = "Ok(true)"

(***************************************************************************)
(* The layout the constructs call for.  Occurrences(ast, S) are the        *)
(* sub-trees of ast, each with the address its code starts at when ast is  *)
(* generated starting at S; Layout(ast, S) is the code of ast generated    *)
(* starting at S.                                                          *)
(***************************************************************************)
RECURSIVE Occurrences(_, _), OccurrencesSeq(_, _)
Occurrences(ast, S) ==
    {[ast |-> ast, at |-> S]} \cup
    CASE ast.t = "Char" -> {}
      [] ast.t = "Or" ->
            Occurrences(ast.e1, S + 1)
            \cup Occurrences(ast.e2, S + 2 + InstCount(ast.e1))
      [] ast.t = "Seq" -> OccurrencesSeq(ast.es, S)
      [] ast.t = "Star" -> Occurrences(ast.e, S + 1)
      [] ast.t = "Plus" -> Occurrences(ast.e, S)
      [] ast.t = "Question" -> Occurrences(ast.e, S + 1)

OccurrencesSeq(es, S) ==
    IF es = <<>> THEN {}
    ELSE Occurrences(Head(es), S)
         \cup OccurrencesSeq(Tail(es), S + InstCount(Head(es)))

RECURSIVE Layout(_, _), LayoutSeq(_, _)
Layout(ast, S) ==
    CASE ast.t = "Char" -> <<Instruction_Char(ast.c)>>
      [] ast.t = "Or" ->
            LET J == S + 1 + InstCount(ast.e1)
                E == J + 1 + InstCount(ast.e2)
            IN  <<Instruction_Split(S + 1, J + 1)>> \o Layout(ast.e1, S + 1)
                \o <<Instruction_Jump(E)>> \o Layout(ast.e2, J + 1)
      [] ast.t = "Seq" -> LayoutSeq(ast.es, S)
      [] ast.t = "Star" ->
            LET X == S + 1 + InstCount(ast.e)
            IN  <<Instruction_Split(S + 1, X + 1)>> \o Layout(ast.e, S + 1)
                \o <<Instruction_Jump(S)>>
      [] ast.t = "Plus" ->
            LET P == S + InstCount(ast.e)
            IN  Layout(ast.e, S) \o <<Instruction_Split(S, P + 1)>>
      [] ast.t = "Question" ->
            <<Instruction_Split(S + 1, S + 1 + InstCount(ast.e))>>
            \o Layout(ast.e, S + 1)

LayoutSeq(es, S) ==
    IF es = <<>> THEN <<>>
    ELSE Layout(Head(es), S) \o LayoutSeq(Tail(es), S + InstCount(Head(es)))

\* The instructions of prog at the addresses a .. b - 1.
Segment(prog, a, b) == SubSeq(prog, a + 1, b)

\* The instruction at address a.
InstAt(prog, a) == prog[a + 1]

OccurrencesOf(kind) == {o \in Occurrences(tree, 0) : o.ast.t = kind}

(***************************************************************************)
(* C14.  For Or(e1, e2) generated starting at address S, the finished      *)
(* program holds Split(S+1, J+1) at S, the code of e1 in S+1 .. J-1,       *)
(* Jump(E) at J and the code of e2 in J+1 .. E-1, where                    *)
(* J = S+1+len(code(e1)) and E = J+1+len(code(e2)); neither placeholder    *)
(* operand 0 survives.                                                     *)
(***************************************************************************)
C14_OrLayout ==
    phase = "compiled" =>
        \A o \in OccurrencesOf("Or") :
            LET S == o.at
                J == S + 1 + InstCount(o.ast.e1)
                E == J + 1 + InstCount(o.ast.e2)
            IN  /\ E < Len(code)
                /\ InstAt(code, S) = Instruction_Split(S + 1, J + 1)
                /\ Segment(code, S + 1, J) = Layout(o.ast.e1, S + 1)
                /\ InstAt(code, J) = Instruction_Jump(E)
                /\ Segment(code, J + 1, E) = Layout(o.ast.e2, J + 1)
                /\ InstAt(code, S).addr2 # 0
                /\ InstAt(code, J).addr # 0

\* An Or inside a larger pattern, away from address 0, with a branch of more
\* than one instruction, has been compiled.
C14_Witness ==
    /\ phase = "compiled"
    /\ \E o \in OccurrencesOf("Or") :
          /\ o.at > 0
          /\ InstCount(o.ast.e1) > 1
          /\ InstAt(code, o.at).op = "Split"

(***************************************************************************)
(* C15.  For Star(e) generated starting at address L1, the finished        *)
(* program holds Split(L1+1, X+1) at L1, the code of e in L1+1 .. X-1 and  *)
(* Jump(L1) at X, where X = L1+1+len(code(e)); the Split's second operand  *)
(* is the address directly after the Jump, not the placeholder 0.          *)
(***************************************************************************)
C15_StarLayout ==
    phase = "compiled" =>
        \A o \in OccurrencesOf("Star") :
            LET L1 == o.at
                X == L1 + 1 + InstCount(o.ast.e)
            IN  /\ X + 1 < Len(code)
                /\ InstAt(code, L1) = Instruction_Split(L1 + 1, X + 1)
                /\ Segment(code, L1 + 1, X) = Layout(o.ast.e, L1 + 1)
                /\ InstAt(code, X) = Instruction_Jump(L1)
                /\ InstAt(code, L1).addr2 # 0

\* A Star away from address 0 whose body is more than one instruction has
\* been compiled.
C15_Witness ==
    /\ phase = "compiled"
    /\ \E o \in OccurrencesOf("Star") :
          /\ o.at > 0
          /\ InstCount(o.ast.e) > 1
          /\ InstAt(code, o.at + 1 + InstCount(o.ast.e)).op = "Jump"

(***************************************************************************)
(* C16.  For Plus(e) generated starting at address L1, the finished        *)
(* program holds the code of e in L1 .. P-1 followed by Split(L1, P+1) at  *)
(* P = L1+len(code(e)): the body is executed at least once before the      *)
(* loop exit P+1 can be reached.                                           *)
(***************************************************************************)
C16_PlusLayout ==
    phase = "compiled" =>
        \A o \in OccurrencesOf("Plus") :
            LET L1 == o.at
                P == L1 + InstCount(o.ast.e)
            IN  /\ P + 1 < Len(code)
                /\ Segment(code, L1, P) = Layout(o.ast.e, L1)
                /\ InstAt(code, P) = Instruction_Split(L1, P + 1)
                /\ \A a \in L1..(P - 1) :
                      /\ InstAt(code, a).op = "Jump" => InstAt(code, a).addr <= P
                      /\ InstAt(code, a).op = "Split" =>
                            InstAt(code, a).addr1 <= P /\ InstAt(code, a).addr2 <= P

\* A Plus away from address 0 whose body is more than one instruction has
\* been compiled.
C16_Witness ==
    /\ phase = "compiled"
    /\ \E o \in OccurrencesOf("Plus") :
          /\ o.at > 0
          /\ InstCount(o.ast.e) > 1
          /\ InstAt(code, o.at + InstCount(o.ast.e)).op = "Split"

\* The addresses a construct in progress has remembered hold the
\* instruction it emitted there.
Remembered(f, insts) ==
    /\ (f.fn = "gen_or" /\ f.at >= 1) =>
          f.a1 < Len(insts) /\ InstAt(insts, f.a1).op = "Split"
    /\ (f.fn = "gen_or" /\ f.at = 2) =>
          f.a2 < Len(insts) /\ InstAt(insts, f.a2).op = "Jump"
    /\ (f.fn \in {"gen_star", "gen_question"} /\ f.at = 1) =>
          f.a1 < Len(insts) /\ InstAt(insts, f.a1).op = "Split"
    /\ (f.fn = "gen_plus" /\ f.at = 1) => f.a1 <= Len(insts)

(***************************************************************************)
(* C17.  On entry to and on successful return from every gen_expr call,    *)
(* and when gen_code returns, the generator's pc equals the number of      *)
(* instructions stored in insts; an instruction's address is the pc value  *)
(* at which its construct remembered it.                                   *)
(***************************************************************************)
C17_PcCountsInstructions ==
    /\ phase = "codegen" =>
          /\ generator.pc = Len(generator.insts)
          /\ \A i \in 1..Len(gstack) : Remembered(gstack[i], generator.insts)
    /\ Compiled =>
          /\ generator.pc = Len(generator.insts)
          /\ code = generator.insts

\* A nested gen_or has both of its branches behind it: the gen_expr call of
\* the second has returned.
C17_Witness ==
    /\ phase = "codegen"
    /\ Len(gstack) > 3
    /\ Top.fn = "gen_or" /\ Top.at = 2
    /\ Top.a1 > 0
    /\ generator.pc > Top.a2 + 1

(***************************************************************************)
(* C18.  The program compiled from the empty sequence Seq([]) is the       *)
(* single instruction Match at address 0, and backtracking evaluation of   *)
(* it returns true on the empty input and on every non-empty input.        *)
(***************************************************************************)
C18_EmptyPattern ==
    (tree = AST_Seq(<<>>)) =>
        /\ phase # "failed"
        /\ Compiled => code = <<Instruction_Match>>
        /\ (phase = "returned" /\ is_depth) => result = "Ok(true)"
        /\ phase = "eval_depth" => (pc = 0 /\ sp = 0 /\ stack = <<>>)

\* The empty pattern has been evaluated on a line that is not empty.
C18_Witness ==
    /\ tree = AST_Seq(<<>>)
    /\ code = <<Instruction_Match>>
    /\ phase = "returned" /\ is_depth
    /\ line # <<>>
    /\ result = "Ok(true)"

====
